---- MODULE Spec2Model ----
(***************************************************************************)
(* Tic-tac-toe game controller with an optional AI opponent.               *)
(*                                                                         *)
(* The state is the React state of the Game component (squares, xIsNext,   *)
(* mode, isAITurning) plus the one timeout the AI effect may have pending. *)
(* Every action is one event handler (or the timeout callback) together    *)
(* with the re-render and the effect run that React performs at commit.    *)
(*                                                                         *)
(* Three specifications:                                                   *)
(*   Spec        the AI-capable Game component under user events;          *)
(*   SpecSelect  getBestAIMove and the timeout callback applied to 9-cell   *)
(*               boards, also those the guards keep the game from;         *)
(*   SpecEquiv   the AI-capable component kept in "pvp" mode and the plain *)
(*               two-player component, fed the same clicks and restarts.   *)
(***************************************************************************)
EXTENDS Integers, Sequences, FiniteSets

VARIABLES
    squares,      \* [0..8 -> Cell], the board
    xIsNext,      \* BOOLEAN, TRUE when X is the active mark
    mode,         \* "pvp" or "ai"
    isAITurning,  \* BOOLEAN, the "AI is thinking" flag
    tm,           \* the pending timeout of the AI effect and the board its closure captured
    lastOp,       \* history: the last operation, its argument, and what it met
    ret,          \* the last direct call of getBestAIMove: its board and the value returned
    pSquares,     \* squares of the plain two-player Game component
    pXIsNext      \* xIsNext of the plain two-player Game component

vars ==
    <<squares, xIsNext, mode, isAITurning, tm, lastOp, ret, pSquares, pXIsNext>>

\* the state of the plain two-player component
plainVars ==
    <<pSquares, pXIsNext>>

----------------------------------------------------------------------------
(* Values *)

Null ==
    "null"

Marks ==
    {"X", "O"}

Cell ==
    Marks \cup {Null}

Indices ==
    <<0, 1, 2, 3, 4, 5, 6, 7, 8>>

Idx ==
    {Indices[k] : k \in 1..Len(Indices)}

Modes ==
    {"pvp", "ai"}

\* Array(9).fill(null)
EmptyBoard ==
    [i \in Idx |-> Null]

\* the AI always plays O, the user plays X and moves first
aiMark ==
    "O"

\* the value of an absent property (minimax(...).move on a terminal board, [][0])
undefined ==
    -1

\* the initial bestMove of the minimax loop
nullMove ==
    -2

\* stands for JavaScript's Infinity: larger than every score in {-1, 0, 1}
Infinity ==
    2

NoLine ==
    <<>>

----------------------------------------------------------------------------
(* Rules engine *)

\* the win lines with the columns listed before the rows
lines_ColumnsFirst ==
    << <<0, 3, 6>>, <<1, 4, 7>>, <<2, 5, 8>>,
       <<0, 1, 2>>, <<3, 4, 5>>, <<6, 7, 8>>,
       <<0, 4, 8>>, <<2, 4, 6>> >>

lines ==
    << <<0, 1, 2>>, <<3, 4, 5>>, <<6, 7, 8>>,
       <<0, 3, 6>>, <<1, 4, 7>>, <<2, 5, 8>>,
       <<0, 4, 8>>, <<2, 4, 6>> >>

\* JavaScript truthiness of a cell: 'X' and 'O' are truthy, null is falsy
Truthy(v) ==
    v # Null

\* the line test with the comparison against the third cell left out
lineMatches_TwoCells(sq, line) ==
    /\ Truthy(sq[line[1]])
    /\ sq[line[1]] = sq[line[2]]

\* the test of one line inside the loop of calculateWinner
lineMatches(sq, line) ==
    /\ Truthy(sq[line[1]])
    /\ sq[line[1]] = sq[line[2]]
    /\ sq[line[1]] = sq[line[3]]

RECURSIVE scanLines(_, _)
\* the for-loop of calculateWinner, from the k-th line onward
scanLines(sq, k) ==
    IF k > Len(lines)
    THEN [winner |-> Null, line |-> NoLine]
    ELSE IF lineMatches(sq, lines[k])
         THEN [winner |-> sq[lines[k][1]], line |-> lines[k]]
         ELSE scanLines(sq, k + 1)

calculateWinner(sq) ==
    scanLines(sq, 1)

getAvailableMoves(sq) ==
    SelectSeq(Indices, LAMBDA i : sq[i] = Null)

\* squares.filter(Boolean).length
moveCount(sq) ==
    Cardinality({i \in Idx : Truthy(sq[i])})

winnerOf(sq) ==
    calculateWinner(sq).winner

\* isDraw without the test !winner
isDraw_FullBoard(sq) ==
    moveCount(sq) = 9

isDraw(sq) ==
    ~Truthy(winnerOf(sq)) /\ moveCount(sq) = 9

----------------------------------------------------------------------------
(* AI move selector *)

\* board.every(x => x != null)
boardFull(board) ==
    \A i \in Idx : board[i] # Null

RECURSIVE minimax(_, _, _, _)
RECURSIVE minimaxLoop(_, _, _, _, _, _, _)

\* the loop with >= and <= for > and <: among equal scores the last move is kept
minimaxLoop_LastBest(board, isMaximizing, ai, player, moves, k, best) ==
    IF k > Len(moves)
    THEN best
    ELSE LET move == moves[k]
             nextBoard == [board EXCEPT ![move] = IF isMaximizing THEN ai ELSE player]
             better(score) == IF isMaximizing THEN score >= best.score ELSE score <= best.score
             update(score) == IF better(score) THEN [score |-> score, move |-> move] ELSE best
             scores == {minimax(b, ~isMaximizing, ai, player).score : b \in {nextBoard}}
         IN  CHOOSE r \in {minimaxLoop(board, isMaximizing, ai, player, moves, k + 1, nb) :
                               nb \in {update(score) : score \in scores}} : TRUE

\* the for-loop over moves inside minimax, from the k-th move onward;
\* best is the pair (bestScore, bestMove) so far.  The next board, the score of the
\* recursive call and the updated pair are bound as the elements of singleton sets,
\* so that each is computed once, as the loop does.
minimaxLoop(board, isMaximizing, ai, player, moves, k, best) ==
    IF k > Len(moves)
    THEN best
    ELSE LET move == moves[k]
             nextBoard == [board EXCEPT ![move] = IF isMaximizing THEN ai ELSE player]
             better(score) == IF isMaximizing THEN score > best.score ELSE score < best.score
             update(score) == IF better(score) THEN [score |-> score, move |-> move] ELSE best
             scores == {minimax(b, ~isMaximizing, ai, player).score : b \in {nextBoard}}
         IN  CHOOSE r \in {minimaxLoop(board, isMaximizing, ai, player, moves, k + 1, nb) :
                               nb \in {update(score) : score \in scores}} : TRUE

minimax(board, isMaximizing, ai, player) ==
    LET w == calculateWinner(board).winner
    IN  IF w = ai THEN [score |-> 1, move |-> undefined]
        ELSE IF w = player THEN [score |-> -1, move |-> undefined]
        ELSE IF boardFull(board) THEN [score |-> 0, move |-> undefined]
        ELSE CHOOSE r \in {minimaxLoop(board, isMaximizing, ai, player, moves, 1,
                                        [score |-> IF isMaximizing THEN -Infinity ELSE Infinity,
                                         move |-> nullMove]) :
                               moves \in {getAvailableMoves(board)}} : TRUE

\* the elements of an array, any of which Math.floor(Math.random() * length) may index
AnyOf(arr) ==
    {arr[k] : k \in 1..Len(arr)}

\* getBestAIMove with the opening preference for sides before corners
getBestAIMove_SidesFirst(sq, ai, player) ==
    LET emptyCount == Len(getAvailableMoves(sq))
        corners == SelectSeq(<<0, 2, 6, 8>>, LAMBDA i : sq[i] = Null)
        sides == SelectSeq(<<1, 3, 5, 7>>, LAMBDA i : sq[i] = Null)
    IN  IF emptyCount >= 7
        THEN IF sq[4] = Null THEN {4}
             ELSE IF Len(sides) > 0 THEN AnyOf(sides)
             ELSE IF Len(corners) > 0 THEN AnyOf(corners)
             ELSE IF emptyCount > 0 THEN {getAvailableMoves(sq)[1]} ELSE {undefined}
        ELSE {minimax(sq, TRUE, ai, player).move}

\* getBestAIMove with the opening heuristic kept for one move too long (>= 5)
getBestAIMove_LateSearch(sq, ai, player) ==
    LET emptyCount == Len(getAvailableMoves(sq))
        corners == SelectSeq(<<0, 2, 6, 8>>, LAMBDA i : sq[i] = Null)
        sides == SelectSeq(<<1, 3, 5, 7>>, LAMBDA i : sq[i] = Null)
    IN  IF emptyCount >= 5
        THEN IF sq[4] = Null THEN {4}
             ELSE IF Len(corners) > 0 THEN AnyOf(corners)
             ELSE IF Len(sides) > 0 THEN AnyOf(sides)
             ELSE IF emptyCount > 0 THEN {getAvailableMoves(sq)[1]} ELSE {undefined}
        ELSE {minimax(sq, TRUE, ai, player).move}

\* the set of values getBestAIMove may return (one value, except where Math.random chooses)
getBestAIMove(sq, ai, player) ==
    LET emptyCount == Len(getAvailableMoves(sq))
        corners == SelectSeq(<<0, 2, 6, 8>>, LAMBDA i : sq[i] = Null)
        sides == SelectSeq(<<1, 3, 5, 7>>, LAMBDA i : sq[i] = Null)
    IN  IF emptyCount >= 7
        THEN IF sq[4] = Null THEN {4}
             ELSE IF Len(corners) > 0 THEN AnyOf(corners)
             ELSE IF Len(sides) > 0 THEN AnyOf(sides)
             ELSE IF emptyCount > 0 THEN {getAvailableMoves(sq)[1]} ELSE {undefined}
        ELSE {minimax(sq, TRUE, ai, player).move}

----------------------------------------------------------------------------
(* Game controller *)

NoTimer ==
    [set |-> FALSE, squares |-> EmptyBoard]

\* the AI effect's condition without the tests for a finished game
aiEffectGuard_NoEnd(sq, xn, md) ==
    /\ md = "ai"
    /\ ~xn

\* the condition of the AI effect
aiEffectGuard(sq, xn, md) ==
    /\ md = "ai"
    /\ ~Truthy(winnerOf(sq))
    /\ ~isDraw(sq)
    /\ ~xn

\* an effect that returns no cleanup: the timeout stays armed
effectCleanup_None(t) ==
    t

\* the cleanup of the previous effect run: clearTimeout(tm)
effectCleanup(t) ==
    NoTimer

\* a commit whose effect sets the flag but never calls setTimeout
Commit_NoTimeout(sq, xn, md, turning) ==
    /\ squares' = sq
    /\ xIsNext' = xn
    /\ mode' = md
    /\ isAITurning' = IF aiEffectGuard(sq, xn, md) THEN TRUE ELSE turning
    /\ tm' = effectCleanup(tm)

\* a commit whose effect arms the timeout but forgets setIsAITurning(true)
Commit_NoFlag(sq, xn, md, turning) ==
    /\ squares' = sq
    /\ xIsNext' = xn
    /\ mode' = md
    /\ isAITurning' = turning
    /\ tm' = IF aiEffectGuard(sq, xn, md)
             THEN [set |-> TRUE, squares |-> sq]
             ELSE effectCleanup(tm)

\* A commit after which the effect's dependencies changed (every state-changing
\* handler stores a fresh squares array): the previous effect is cleaned up and
\* the effect runs again on the committed state.
Commit(sq, xn, md, turning) ==
    /\ squares' = sq
    /\ xIsNext' = xn
    /\ mode' = md
    /\ IF aiEffectGuard(sq, xn, md)
       THEN /\ isAITurning' = TRUE
            /\ tm' = [set |-> TRUE, squares |-> sq]
       ELSE /\ isAITurning' = turning
            /\ tm' = effectCleanup(tm)

\* canPlayerMove with the PlayerVsAI turn checks left out
canPlayerMove_NoTurn(idx) ==
    IF Truthy(winnerOf(squares)) \/ isDraw(squares) THEN FALSE
    ELSE squares[idx] = Null

\* canPlayerMove without the test for a finished game
canPlayerMove_NoEnd(idx) ==
    IF mode = "ai" /\ isAITurning THEN FALSE
    ELSE IF mode = "ai" /\ ~xIsNext THEN FALSE
    ELSE squares[idx] = Null

canPlayerMove(idx) ==
    IF Truthy(winnerOf(squares)) \/ isDraw(squares) THEN FALSE
    ELSE IF mode = "ai" /\ isAITurning THEN FALSE
    ELSE IF mode = "ai" /\ ~xIsNext THEN FALSE
    ELSE squares[idx] = Null

\* TurnState: derived from the board, never stored
status ==
    IF Truthy(winnerOf(squares)) THEN "Won"
    ELSE IF isDraw(squares) THEN "Drawn"
    ELSE "Ongoing"

\* what the UI reads back
snapshot ==
    [board |-> squares,
     activeMark |-> IF xIsNext THEN "X" ELSE "O",
     status |-> status,
     winningLine |-> calculateWinner(squares).line,
     isAIturnPending |-> isAITurning]

\* history record of an operation: its kind and argument (idx for a click, val for a
\* mode change) and what it met: whether an AI move was pending, the target cell's
\* content, the status, and whether the board was empty
Op(kind, idx, val) ==
    [kind |-> kind, idx |-> idx, val |-> val,
     pending |-> tm.set,
     cell |-> IF idx \in Idx THEN squares[idx] ELSE Null,
     status |-> status,
     empty |-> squares = EmptyBoard]

\* handleSquareClick that forgets setXIsNext(!xIsNext)
handleSquareClick_NoFlip(idx) ==
    /\ lastOp' = Op("click", idx, "")
    /\ IF ~canPlayerMove(idx)
       THEN UNCHANGED <<squares, xIsNext, mode, isAITurning, tm>>
       ELSE Commit([squares EXCEPT ![idx] = IF xIsNext THEN "X" ELSE "O"],
                   xIsNext, mode, isAITurning)

handleSquareClick(idx) ==
    /\ lastOp' = Op("click", idx, "")
    /\ IF ~canPlayerMove(idx)
       THEN UNCHANGED <<squares, xIsNext, mode, isAITurning, tm>>
       ELSE Commit([squares EXCEPT ![idx] = IF xIsNext THEN "X" ELSE "O"],
                   ~xIsNext, mode, isAITurning)

\* handleRestart that forgets setXIsNext(true)
handleRestart_KeepTurn ==
    /\ lastOp' = Op("restart", -1, "")
    /\ Commit(EmptyBoard, xIsNext, mode, FALSE)

handleRestart ==
    /\ lastOp' = Op("restart", -1, "")
    /\ Commit(EmptyBoard, TRUE, mode, FALSE)

\* handleModeChange that forgets to clear the board
handleModeChange_KeepBoard(val) ==
    /\ lastOp' = Op("setMode", -1, val)
    /\ Commit(squares, TRUE, val, FALSE)

handleModeChange(val) ==
    /\ lastOp' = Op("setMode", -1, val)
    /\ Commit(EmptyBoard, TRUE, val, FALSE)

\* the timeout callback without the test move !== undefined: squares[undefined] is
\* undefined, which == null, so the branch stores a copy of the board and the turn
aiTimeout_NoUndefinedTest ==
    /\ tm.set
    /\ lastOp' = Op("ai", -1, "")
    /\ \E move \in getBestAIMove(tm.squares, aiMark, IF aiMark = "X" THEN "O" ELSE "X") :
          IF move = undefined
          THEN Commit(tm.squares, TRUE, mode, FALSE)
          ELSE IF move \in Idx /\ tm.squares[move] = Null
          THEN Commit([tm.squares EXCEPT ![move] = "O"], TRUE, mode, FALSE)
          ELSE /\ isAITurning' = FALSE
               /\ tm' = NoTimer
               /\ UNCHANGED <<squares, xIsNext, mode>>

\* the timeout callback without setXIsNext(true)
aiTimeout_NoHandBack ==
    /\ tm.set
    /\ lastOp' = Op("ai", -1, "")
    /\ \E move \in getBestAIMove(tm.squares, aiMark, IF aiMark = "X" THEN "O" ELSE "X") :
          IF move # undefined /\ move \in Idx /\ tm.squares[move] = Null
          THEN Commit([tm.squares EXCEPT ![move] = "O"], xIsNext, mode, FALSE)
          ELSE /\ isAITurning' = FALSE
               /\ tm' = NoTimer
               /\ UNCHANGED <<squares, xIsNext, mode>>

\* the callback of setTimeout in the AI effect, on the board its closure captured
aiTimeout ==
    /\ tm.set
    /\ lastOp' = Op("ai", -1, "")
    /\ \E move \in getBestAIMove(tm.squares, aiMark, IF aiMark = "X" THEN "O" ELSE "X") :
          IF move # undefined /\ move \in Idx /\ tm.squares[move] = Null
          THEN Commit([tm.squares EXCEPT ![move] = "O"], TRUE, mode, FALSE)
          ELSE /\ isAITurning' = FALSE
               /\ tm' = NoTimer
               /\ UNCHANGED <<squares, xIsNext, mode>>

NoOp ==
    [kind |-> "init", idx |-> -1, val |-> "", pending |-> FALSE,
     cell |-> Null, status |-> "Ongoing", empty |-> TRUE]

NotCalled ==
    [called |-> FALSE, board |-> EmptyBoard, value |-> undefined]

Init ==
    /\ squares = EmptyBoard
    /\ xIsNext = TRUE
    /\ mode = "pvp"
    /\ isAITurning = FALSE
    /\ tm = NoTimer
    /\ lastOp = NoOp
    /\ ret = NotCalled
    /\ pSquares = EmptyBoard
    /\ pXIsNext = TRUE

Click ==
    /\ \E idx \in Idx : handleSquareClick(idx)
    /\ UNCHANGED <<ret, plainVars>>

Restart ==
    /\ handleRestart
    /\ UNCHANGED <<ret, plainVars>>

SetMode ==
    /\ \E val \in Modes : handleModeChange(val)
    /\ UNCHANGED <<ret, plainVars>>

\* the armed timeout fires
TimerFires ==
    /\ aiTimeout
    /\ UNCHANGED <<ret, plainVars>>

Next ==
    \/ Click
    \/ Restart
    \/ SetMode
    \/ TimerFires

Spec ==
    Init /\ [][Next]_vars

----------------------------------------------------------------------------
(* getBestAIMove and the timeout callback on every board *)

\* the largest difference between the numbers of X and O cells of an input board
MaxImbalance ==
    1

\* the input boards: every 9-cell board whose mark counts differ by at most MaxImbalance
Boards ==
    {b \in [Idx -> Cell] :
        LET d == Cardinality({i \in Idx : b[i] = "X"}) - Cardinality({i \in Idx : b[i] = "O"})
        IN  -MaxImbalance <= d /\ d <= MaxImbalance}

\* the AI's turn on an input board, either for a direct call of getBestAIMove or with
\* the timeout armed on that board
InitSelect ==
    /\ squares \in Boards
    /\ xIsNext = FALSE
    /\ mode = "ai"
    /\ tm \in {NoTimer, [set |-> TRUE, squares |-> squares]}
    /\ isAITurning = tm.set
    /\ lastOp = NoOp
    /\ ret = NotCalled
    /\ pSquares = EmptyBoard
    /\ pXIsNext = TRUE

\* a direct call getBestAIMove(squares, aiMark, playerMark) on the input board
SelectMove ==
    /\ lastOp = NoOp
    /\ ~tm.set
    /\ ~ret.called
    /\ \E move \in getBestAIMove(squares, aiMark, IF aiMark = "X" THEN "O" ELSE "X") :
          ret' = [called |-> TRUE, board |-> squares, value |-> move]
    /\ UNCHANGED <<squares, xIsNext, mode, isAITurning, tm, lastOp, plainVars>>

NextSelect ==
    \/ SelectMove
    \/ TimerFires

SpecSelect ==
    InitSelect /\ [][NextSelect]_vars

----------------------------------------------------------------------------
(* The plain two-player Game component *)

pLines ==
    << <<0, 1, 2>>, <<3, 4, 5>>, <<6, 7, 8>>,
       <<0, 3, 6>>, <<1, 4, 7>>, <<2, 5, 8>>,
       <<0, 4, 8>>, <<2, 4, 6>> >>

RECURSIVE pScanLines(_, _)
\* the for-loop of the plain component's calculateWinner, from the k-th line onward
pScanLines(sq, k) ==
    IF k > Len(pLines)
    THEN [winner |-> Null, line |-> NoLine]
    ELSE IF /\ Truthy(sq[pLines[k][1]])
            /\ sq[pLines[k][1]] = sq[pLines[k][2]]
            /\ sq[pLines[k][1]] = sq[pLines[k][3]]
         THEN [winner |-> sq[pLines[k][1]], line |-> pLines[k]]
         ELSE pScanLines(sq, k + 1)

pCalculateWinner(sq) ==
    pScanLines(sq, 1)

\* const { winner, line: winningLine } = calculateWinner(squares)
pWinner ==
    pCalculateWinner(pSquares).winner

pWinningLine ==
    pCalculateWinner(pSquares).line

\* squares.filter(Boolean).length
pMoveCount ==
    Cardinality({i \in Idx : Truthy(pSquares[i])})

pIsDraw ==
    ~Truthy(pWinner) /\ pMoveCount = 9

\* the plain handleSquareClick without the test for a winner
pHandleSquareClick_NoWinnerTest(idx) ==
    IF Truthy(pSquares[idx])
    THEN UNCHANGED plainVars
    ELSE /\ pSquares' = [pSquares EXCEPT ![idx] = IF pXIsNext THEN "X" ELSE "O"]
         /\ pXIsNext' = ~pXIsNext

pHandleSquareClick(idx) ==
    IF Truthy(pSquares[idx]) \/ Truthy(pWinner)
    THEN UNCHANGED plainVars
    ELSE /\ pSquares' = [pSquares EXCEPT ![idx] = IF pXIsNext THEN "X" ELSE "O"]
         /\ pXIsNext' = ~pXIsNext

pHandleRestart ==
    /\ pSquares' = EmptyBoard
    /\ pXIsNext' = TRUE

\* one click delivered to both components
BothClick ==
    /\ \E idx \in Idx : handleSquareClick(idx) /\ pHandleSquareClick(idx)
    /\ UNCHANGED ret

\* one restart delivered to both components
BothRestart ==
    /\ handleRestart
    /\ pHandleRestart
    /\ UNCHANGED ret

NextEquiv ==
    \/ BothClick
    \/ BothRestart

\* the AI-capable component, left in its initial "pvp" mode, beside the plain one
SpecEquiv ==
    Init /\ [][NextEquiv]_vars

\* What every step of TimerFires does, whichever move the search returns: the armed
\* timeout is consumed, the flag is cleared, and the board is kept or gets one O.
\* A step of Next satisfies it exactly when it is a step of TimerFires, and it is
\* enabled exactly when the timeout is armed.
TimerFired ==
    /\ tm.set
    /\ lastOp' = Op("ai", -1, "")
    /\ tm' = NoTimer
    /\ isAITurning' = FALSE
    /\ mode' = mode
    /\ xIsNext' \in BOOLEAN
    /\ squares' \in {squares} \cup {[tm.squares EXCEPT ![i] = "O"] : i \in Idx}
    /\ UNCHANGED <<ret, plainVars>>

\* Spec with the browser's guarantee that an armed timeout that is not cleared fires
FairSpec ==
    Spec /\ WF_vars(TimerFired)

TypeOK ==
    /\ squares \in [Idx -> Cell]
    /\ xIsNext \in BOOLEAN
    /\ mode \in Modes
    /\ isAITurning \in BOOLEAN
    /\ tm.set \in BOOLEAN

----------------------------------------------------------------------------
(* Properties *)

count(sq, m) ==
    Cardinality({i \in Idx : sq[i] = m})

\* C1: in PlayerVsAI mode (human X moving first, AI O) no reachable state has X as
\* the winner, whatever the human plays and whatever the opening heuristic picks.
C1_AINeverLoses ==
    mode = "ai" => winnerOf(squares) # "X"

\* a PlayerVsAI game played to completion: won by the AI with its own move
C1_Witness ==
    /\ mode = "ai"
    /\ lastOp.kind = "ai"
    /\ status = "Won"
    /\ winnerOf(squares) = aiMark

\* C2: in every reachable state the number of X cells minus the number of O cells
\* is 0 or 1.
C2_MoveCountInvariant ==
    count(squares, "X") - count(squares, "O") \in {0, 1}

\* a full board in PlayerVsAI mode, five X against four O, the AI having moved
C2_Witness ==
    /\ mode = "ai"
    /\ count(squares, "X") = 5
    /\ count(squares, "O") = 4

\* C3: a click on an occupied cell, or in a Won or Drawn state, leaves the whole
\* snapshot (board, active mark, status, winning line, AI-pending flag) unchanged,
\* for every index and in both modes.
C3_RejectedMoveNoChange ==
    [][\A i \in Idx :
          (/\ lastOp'.kind = "click"
           /\ lastOp'.idx = i
           /\ (squares[i] # Null \/ status # "Ongoing"))
          => (snapshot' = snapshot /\ mode' = mode)]_vars

\* a click on an empty cell of a Won board has been made
C3_Witness ==
    /\ lastOp.kind = "click"
    /\ lastOp.status = "Won"
    /\ lastOp.cell = Null

\* C4: in PlayerVsAI mode a click while it is not the human's turn (O is active, or
\* an AI move is pending) changes nothing, even on an empty cell; every click that
\* does change the board places one X on the human's turn and passes the turn.
C4_WrongTurnNoChange ==
    /\ [][(/\ mode = "ai"
           /\ lastOp'.kind = "click"
           /\ (~xIsNext \/ isAITurning \/ tm.set))
          => (snapshot' = snapshot /\ mode' = mode /\ tm' = tm)]_vars
    /\ [][(/\ mode = "ai"
           /\ lastOp'.kind = "click"
           /\ squares' # squares)
          => (/\ xIsNext
              /\ ~xIsNext'
              /\ \E i \in Idx : /\ squares[i] = Null
                                /\ squares' = [squares EXCEPT ![i] = "X"])]_vars

\* the human clicked an empty cell of an Ongoing game while the AI move was pending
C4_Witness ==
    /\ mode = "ai"
    /\ lastOp.kind = "click"
    /\ lastOp.pending
    /\ lastOp.cell = Null
    /\ lastOp.status = "Ongoing"

\* C5: restart, in any state, yields all 9 cells empty, active mark X, status
\* Ongoing, and leaves the mode unchanged.
C5_RestartResets ==
    [][lastOp'.kind = "restart"
       => (/\ \A i \in Idx : squares'[i] = Null
           /\ snapshot'.activeMark = "X"
           /\ snapshot'.status = "Ongoing"
           /\ mode' = mode)]_vars

\* restart has been called on a Won game
C5_Witness ==
    /\ lastOp.kind = "restart"
    /\ lastOp.status = "Won"
    /\ squares = EmptyBoard

\* C6: a restart or mode change made while an AI move is pending discards that move:
\* the board is all-empty with X active and nothing pending, and stays so until the
\* next human move.
C6_StaleAIMoveDiscarded ==
    /\ [](lastOp.kind \in {"restart", "setMode"} /\ lastOp.pending
           => (/\ squares = EmptyBoard
               /\ xIsNext
               /\ ~isAITurning
               /\ ~tm.set))
    /\ [][(/\ squares = EmptyBoard
           /\ lastOp.kind \in {"restart", "setMode"}
           /\ lastOp'.kind # "click")
          => (squares' = EmptyBoard /\ xIsNext' /\ ~isAITurning')]_vars

\* restart was called while the AI move was pending
C6_Witness ==
    /\ lastOp.kind = "restart"
    /\ lastOp.pending
    /\ mode = "ai"

\* C7: in PlayerVsAI mode an Ongoing state with O active always has exactly the AI
\* move for the current board scheduled; the human cannot move before it; and the
\* AI move places one O in one empty cell, changes no other cell, returns the turn
\* to X and leaves no second AI move scheduled.
C7_OneAIMovePerTurn ==
    /\ [](mode = "ai" /\ status = "Ongoing" /\ ~xIsNext
           => (tm.set /\ tm.squares = squares))
    /\ [](tm.set => (mode = "ai" /\ status = "Ongoing" /\ ~xIsNext))
    /\ [][(mode = "ai" /\ status = "Ongoing" /\ ~xIsNext /\ squares' # squares)
          => \/ lastOp'.kind \in {"restart", "setMode"}
             \/ /\ lastOp'.kind = "ai"
                /\ \E i \in Idx : /\ squares[i] = Null
                                  /\ squares' = [squares EXCEPT ![i] = aiMark]
                /\ xIsNext'
                /\ ~tm'.set]_vars
    /\ [][lastOp'.kind = "ai" => (squares' # squares /\ xIsNext' /\ ~isAITurning')]_vars

\* the AI has just moved and the game goes on with the human
C7_Witness ==
    /\ lastOp.kind = "ai"
    /\ status = "Ongoing"
    /\ xIsNext
    /\ count(squares, "O") = 3

\* C8: once Won or Drawn, no click and no AI move changes the board, no AI move is
\* scheduled, and the state becomes Ongoing again only through restart or setMode.
C8_TerminalAbsorbing ==
    /\ [](status # "Ongoing" => ~tm.set)
    /\ [][status # "Ongoing"
          => \/ squares' = squares
             \/ /\ lastOp'.kind \in {"restart", "setMode"}
                /\ squares' = EmptyBoard]_vars
    /\ [][(status # "Ongoing" /\ status' = "Ongoing")
          => lastOp'.kind \in {"restart", "setMode"}]_vars

\* in PlayerVsAI mode the human's own move filled the board: Drawn with O active
C8_Witness ==
    /\ mode = "ai"
    /\ status = "Drawn"
    /\ ~xIsNext
    /\ lastOp.kind = "click"
    /\ lastOp.status = "Ongoing"

\* C9: setMode sets the requested mode and resets the game: all cells empty, X
\* active, Ongoing, no AI move pending; the mode never changes on a kept board.
C9_SetModeRestarts ==
    /\ [][lastOp'.kind = "setMode"
          => (/\ mode' = lastOp'.val
              /\ squares' = EmptyBoard
              /\ xIsNext'
              /\ status' = "Ongoing"
              /\ ~isAITurning'
              /\ ~tm'.set)]_vars
    /\ [][mode' # mode => squares' = EmptyBoard]_vars

\* the mode was switched to PlayerVsAI in the middle of a PlayerVsPlayer game
C9_Witness ==
    /\ lastOp.kind = "setMode"
    /\ lastOp.status = "Ongoing"
    /\ ~lastOp.empty
    /\ mode = "ai"

\* the 8 triples: 3 rows, 3 columns, 2 diagonals
Triples ==
    {{3 * r + c : c \in 0..2} : r \in 0..2}
        \cup {{3 * r + c : r \in 0..2} : c \in 0..2}
        \cup {{0, 4, 8}, {2, 4, 6}}

\* some triple is completely held by mark m
Complete(sq, m) ==
    \E t \in Triples : \A i \in t : sq[i] = m

\* C10: on every reachable board calculateWinner reports a winner exactly when one
\* of the 8 triples is held by a single mark, the winner and the reported line being
\* such a mark and triple; and no reachable board has a complete X triple together
\* with a complete O triple.
C10_WinnerIffTriple ==
    LET r == calculateWinner(squares)
    IN  /\ (r.winner # Null) <=> (\E m \in Marks : Complete(squares, m))
        /\ r.winner # Null
              => /\ Complete(squares, r.winner)
                 /\ {r.line[k] : k \in 1..Len(r.line)} \in Triples
                 /\ \A k \in 1..Len(r.line) : squares[r.line[k]] = r.winner
        /\ r.winner = Null => r.line = NoLine
        /\ ~(Complete(squares, "X") /\ Complete(squares, "O"))

\* a board won on the last triple of the scan, the anti-diagonal
C10_Witness ==
    /\ calculateWinner(squares).line = <<2, 4, 6>>
    /\ Complete(squares, "O")

Empties(b) ==
    {i \in Idx : b[i] = Null}

\* neither mark holds a triple and a cell is empty
NonTerminal(b) ==
    /\ ~Complete(b, "X")
    /\ ~Complete(b, "O")
    /\ Empties(b) # {}

Max(S) ==
    CHOOSE x \in S : \A y \in S : y <= x

Min(S) ==
    CHOOSE x \in S : \A y \in S : x <= y

RECURSIVE Value(_, _)
\* the full-depth minimax value of a board for the AI: +1 AI win, 0 draw, -1 opponent
\* win, the AI maximizing on its turn and the opponent minimizing on theirs
Value(b, aiToMove) ==
    IF Complete(b, "O") THEN 1
    ELSE IF Complete(b, "X") THEN -1
    ELSE IF Empties(b) = {} THEN 0
    ELSE LET vals == {Value([b EXCEPT ![i] = IF aiToMove THEN "O" ELSE "X"], ~aiToMove) :
                         i \in Empties(b)}
         IN  IF aiToMove THEN Max(vals) ELSE Min(vals)

\* C12: on every non-terminal board with fewer than 7 empty cells getBestAIMove returns
\* an empty cell whose full-depth minimax value is the maximum over all empty cells,
\* and the lowest index among the cells of that value.
C12_MinimaxOptimalLowestIndex ==
    (ret.called /\ NonTerminal(ret.board) /\ Cardinality(Empties(ret.board)) < 7)
    => LET v == [i \in Empties(ret.board) |-> Value([ret.board EXCEPT ![i] = "O"], FALSE)]
           best == Max({v[i] : i \in Empties(ret.board)})
       IN  /\ ret.value \in Empties(ret.board)
           /\ v[ret.value] = best
           /\ \A i \in Empties(ret.board) : v[i] = best => ret.value <= i

\* the search answered on a board with 6 empty cells where the first empty cell is
\* not a best move
C12_Witness ==
    /\ ret.called
    /\ NonTerminal(ret.board)
    /\ Cardinality(Empties(ret.board)) = 6
    /\ ret.value \in Empties(ret.board)
    /\ \E i \in Empties(ret.board) : i < ret.value

\* the board of 9 cells given row by row
BoardOf(cells) ==
    [i \in Idx |-> cells[i + 1]]

Board13 ==
    BoardOf(<<"X", "X", Null, "O", "O", Null, Null, Null, Null>>)

\* C13 as stated: on [X,X,empty,O,O,empty,empty,empty,empty], the AI playing O with
\* 5 empty cells, getBestAIMove returns index 5.
C13_Original_Returns5 ==
    (ret.called /\ ret.board = Board13) => ret.value = 5

\* C13 amended: on that board getBestAIMove returns index 2, the first cell in
\* ascending order with value +1 (it blocks X's row and leaves O two winning cells).
C13_Returns2 ==
    (ret.called /\ ret.board = Board13) => ret.value = 2

\* getBestAIMove has been called on the board of C13
C13_Witness ==
    /\ ret.called
    /\ ret.board = Board13
    /\ Cardinality(Empties(ret.board)) = 5

Corners ==
    {0, 2, 6, 8}

\* C14: on every board with 7 or more empty cells getBestAIMove returns 4 when the
\* center is empty and otherwise an empty corner; after X opens at 0 the reply is 4.
C14_OpeningCenterThenCorner ==
    /\ (ret.called /\ Cardinality(Empties(ret.board)) >= 7)
       => IF ret.board[4] = Null
          THEN ret.value = 4
          ELSE ret.value \in Corners /\ ret.board[ret.value] = Null
    /\ (ret.called /\ ret.board = [EmptyBoard EXCEPT ![0] = "X"]) => ret.value = 4

\* X opened in the center and the random choice fell on the corner 6
C14_Witness ==
    /\ ret.called
    /\ ret.board = [EmptyBoard EXCEPT ![4] = "X"]
    /\ ret.value = 6

\* C17: on a board that is full or has a winner getBestAIMove returns no move index,
\* and the timeout callback, receiving none, leaves board and active mark unchanged.
C17_NoMoveOnTerminalBoard ==
    /\ []((ret.called /\ ~NonTerminal(ret.board)) => ret.value = undefined)
    /\ [][(lastOp'.kind = "ai" /\ ~NonTerminal(tm.squares))
          => (squares' = squares /\ xIsNext' = xIsNext)]_vars

\* the timeout callback ran on a full board without a winner
C17_Witness ==
    /\ lastOp.kind = "ai"
    /\ lastOp.status = "Drawn"
    /\ Empties(squares) = {}
    /\ ~xIsNext
    /\ ~isAITurning

Board15 ==
    BoardOf(<<"X", "O", "X", "O", "X", "O", "O", "X", "O">>)

\* C15: the game is a draw exactly when all 9 cells are occupied and no triple is held
\* by one mark; a full board with a completed line is Won, not Drawn; and the full
\* board [X,O,X,O,X,O,O,X,O] is a draw.
C15_DrawnIffFullNoWinner ==
    /\ isDraw(squares)
          <=> (Empties(squares) = {} /\ ~Complete(squares, "X") /\ ~Complete(squares, "O"))
    /\ (status = "Drawn") <=> isDraw(squares)
    /\ (Empties(squares) = {} /\ (Complete(squares, "X") \/ Complete(squares, "O")))
          => status = "Won"
    /\ isDraw(Board15)
    /\ winnerOf(Board15) = Null

\* the 9th move of a game was a click that completed a line
C15_Witness ==
    /\ Empties(squares) = {}
    /\ status = "Won"
    /\ lastOp.kind = "click"
    /\ lastOp.status = "Ongoing"
    /\ lastOp.cell = Null

\* the fixed order of the triples: rows, columns, diagonals
FixedOrder ==
    << <<0, 1, 2>>, <<3, 4, 5>>, <<6, 7, 8>>,
       <<0, 3, 6>>, <<1, 4, 7>>, <<2, 5, 8>>,
       <<0, 4, 8>>, <<2, 4, 6>> >>

\* the positions in FixedOrder of the triples whose three cells hold one mark
HeldTriples(b) ==
    {k \in 1..Len(FixedOrder) :
        \E m \in Marks : \A j \in 1..3 : b[FixedOrder[k][j]] = m}

Board16 ==
    BoardOf(<<"X", "O", "X", "X", "O", "O", Null, Null, Null>>)

\* C16: in every Won state the reported line is the first triple in the fixed order
\* whose cells all hold the winner's mark, also when two lines are complete; X
\* playing index 6 on [X,O,X,X,O,O,empty,empty,empty] gives winner X, line [0,3,6].
C16_FirstLineInFixedOrder ==
    /\ [](status = "Won"
           => /\ HeldTriples(squares) # {}
              /\ snapshot.winningLine = FixedOrder[Min(HeldTriples(squares))]
              /\ \A j \in 1..3 : squares[snapshot.winningLine[j]] = winnerOf(squares))
    /\ [][(squares = Board16 /\ xIsNext /\ lastOp'.kind = "click" /\ lastOp'.idx = 6)
          => (winnerOf(squares') = "X" /\ calculateWinner(squares').line = <<0, 3, 6>>)]_vars

\* the winning move completed two lines at once
C16_Witness ==
    /\ status = "Won"
    /\ Cardinality(HeldTriples(squares)) = 2
    /\ lastOp.kind = "click"

\* C19: in every reachable state the active mark is X exactly when the numbers of X
\* and O cells are equal, and O exactly when there is one more X than O.
C19_TurnFlagAgreesWithBoard ==
    /\ xIsNext <=> count(squares, "X") = count(squares, "O")
    /\ ~xIsNext <=> count(squares, "X") = count(squares, "O") + 1

\* O is active on a board of four X and three O in PlayerVsPlayer mode
C19_Witness ==
    /\ mode = "pvp"
    /\ ~xIsNext
    /\ count(squares, "X") = 4
    /\ count(squares, "O") = 3

\* the human has moved in PlayerVsAI mode and the game is still Ongoing
AwaitingAI ==
    mode = "ai" /\ status = "Ongoing" /\ ~xIsNext

\* the last operation was the AI's callback and it placed its O
AIMoveApplied ==
    /\ lastOp.kind = "ai"
    /\ xIsNext
    /\ count(squares, "O") = count(squares, "X")

\* C18: in PlayerVsAI mode, the timeout eventually firing, every human move that leaves
\* the game Ongoing is eventually followed by an applied AI move or by a restart or
\* mode change, and no Ongoing state with O active is without a scheduled AI move.
C18_AIEventuallyMoves ==
    /\ AwaitingAI ~> (AIMoveApplied \/ lastOp.kind \in {"restart", "setMode"})
    /\ [](AwaitingAI => tm.set)

\* the AI has answered the human's first move
C18_Witness ==
    /\ mode = "ai"
    /\ lastOp.kind = "ai"
    /\ lastOp.pending
    /\ count(squares, "X") = 1
    /\ count(squares, "O") = 1

\* C20: the AI-capable component kept in PlayerVsPlayer mode and the plain component,
\* fed the same clicks and restarts from the initial state, agree after every step on
\* board, active mark, winner, winning line and draw status.
C20_PvPEquivalentToPlain ==
    /\ mode = "pvp"
    /\ squares = pSquares
    /\ xIsNext = pXIsNext
    /\ winnerOf(squares) = pWinner
    /\ calculateWinner(squares).line = pWinningLine
    /\ isDraw(squares) = pIsDraw

\* both components were clicked on an empty cell after the game was won
C20_Witness ==
    /\ lastOp.kind = "click"
    /\ lastOp.status = "Won"
    /\ lastOp.cell = Null
    /\ Truthy(pWinner)
    /\ pMoveCount = 5

====
